---- MODULE Spec2Model ----
(***************************************************************************)
(* A model of device_ptr.h: the class template device_ptr<T>, a wrapper    *)
(* around a raw pointer to T, and its specialisation for (cv) void.        *)
(*                                                                         *)
(* An address is a byte address of PtrBits bits.  Pointer arithmetic that  *)
(* leaves the address space wraps, as it does in every build of the code.  *)
(* The function under analysis, whose execution space is ctx, holds two    *)
(* objects x and y of one instantiation device_ptr<inst>, where inst is T, *)
(* const T or void.  A step is one call of one member or friend of         *)
(* device_ptr made by that function; op names the call and ret holds what  *)
(* it returned, which the next call may use as a temporary.                *)
(***************************************************************************)
EXTENDS Integers, FiniteSets

VARIABLES obj, inst, build, ctx, op, ret

vars == <<obj, inst, build, ctx, op, ret>>

(***************************************************************************)
(* Bounds of the model.                                                    *)
(***************************************************************************)
PtrBits == 2
MaxOffset == 2

(***************************************************************************)
(* sizeof(T) of the element type the primary template is instantiated on.  *)
(***************************************************************************)
SizeofT == 1

PtrMod == 2 ^ PtrBits
Addr == 0 .. (PtrMod - 1)
Offsets == (0 - MaxOffset) .. MaxOffset
Slots == {"x", "y"}
Insts == {"T", "const T", "void"}
IntWidths == {PtrBits - 1, PtrBits, PtrBits + 1}
DiffRange == (0 - (PtrMod - 1)) .. (PtrMod - 1)

nullptr == 0

(***************************************************************************)
(* Native pointer arithmetic T* + n: the address moves by n * sizeof(T)    *)
(* bytes.                                                                  *)
(***************************************************************************)
PtrAdd(p, n) == (p + n * SizeofT) % PtrMod

PtrSub(p, n) == (p - n * SizeofT) % PtrMod

(***************************************************************************)
(* Build configuration.  The header defines __host__ and __device__ as     *)
(* empty macros when the toolchain has not defined them: build.cuda says   *)
(* whether the toolchain defines them.  build.permissive says whether the  *)
(* compiler accepts (with a diagnostic) the pointer conversions that the   *)
(* language makes ill-formed.                                              *)
(***************************************************************************)
Builds == [cuda : BOOLEAN, permissive : BOOLEAN]

HostDevice == {"__host__", "__device__"}

DeviceOnly == {"__device__"}

MacroExpand(tag) == IF build.cuda THEN tag ELSE ""

(***************************************************************************)
(* The execution spaces a function annotated with tags is compiled for: a  *)
(* function with no annotation left is an ordinary (host) function.        *)
(***************************************************************************)
ExecutionSpaces(tags) ==
    LET left == {MacroExpand(t) : t \in tags} \ {""}
    IN  IF left = {} THEN {"host"}
        ELSE {IF t = "__host__" THEN "host" ELSE "device" : t \in left}

Callable(tags) == ctx \in ExecutionSpaces(tags)

(***************************************************************************)
(* Pointer types and the implicit conversions between them.                *)
(***************************************************************************)
ElemPtr == [elem |-> "T", const |-> (inst = "const T")]

VoidPtr == [elem |-> "void", const |-> FALSE]

ConstVoidPtr == [elem |-> "void", const |-> TRUE]

ImplicitlyConvertible(from, to) ==
    /\ from.elem = to.elem \/ to.elem = "void"
    /\ from.const => to.const

Accepted(from, to) == ImplicitlyConvertible(from, to) \/ build.permissive

(***************************************************************************)
(* device_ptr<T>: constructors.  A value of the class is a record holding  *)
(* its one data member, ptr.                                               *)
(***************************************************************************)
device_ptr_nullptr == [ptr |-> nullptr]

(* Faulty variant: the member is not initialised from the argument. *)
device_ptr_raw_self_init(p) == [ptr |-> nullptr]

device_ptr_raw(p) == [ptr |-> p]

device_ptr_from_void(dp) == [ptr |-> dp.ptr]

(***************************************************************************)
(* device_ptr<T>: access.                                                  *)
(***************************************************************************)
operator_deref(this) == this.ptr

operator_index(this, n) == PtrAdd(this.ptr, n)

operator_arrow(this) == this.ptr

(***************************************************************************)
(* device_ptr<T>: arithmetic.  A mutating member yields the object after   *)
(* the call (this) and the value returned (ret).                           *)
(***************************************************************************)
(* Faulty variant: the post-increment returns the updated object. *)
operator_postinc_returns_new(this) ==
    LET new == [this EXCEPT !.ptr = PtrAdd(@, 1)]
    IN  [this |-> new, ret |-> new]

operator_postinc(this) ==
    LET tmp == this
    IN  [this |-> [this EXCEPT !.ptr = PtrAdd(@, 1)], ret |-> tmp]

operator_preinc(this) ==
    LET new == [this EXCEPT !.ptr = PtrAdd(@, 1)]
    IN  [this |-> new, ret |-> new]

operator_plus_assign(this, n) ==
    LET new == [this EXCEPT !.ptr = PtrAdd(@, n)]
    IN  [this |-> new, ret |-> new]

operator_plus(this, n) ==
    LET tmp == this
    IN  operator_plus_assign(tmp, n).ret

operator_postdec(this) ==
    LET tmp == this
    IN  [this |-> [this EXCEPT !.ptr = PtrSub(@, 1)], ret |-> tmp]

operator_predec(this) ==
    LET new == [this EXCEPT !.ptr = PtrSub(@, 1)]
    IN  [this |-> new, ret |-> new]

(* Faulty variant: -= written as +=. *)
operator_minus_assign_adds(this, n) ==
    LET new == [this EXCEPT !.ptr = PtrAdd(@, n)]
    IN  [this |-> new, ret |-> new]

operator_minus_assign(this, n) ==
    LET new == [this EXCEPT !.ptr = PtrSub(@, n)]
    IN  [this |-> new, ret |-> new]

operator_minus(this, n) ==
    LET tmp == this
    IN  operator_minus_assign(tmp, n).ret

(***************************************************************************)
(* Pointer difference ptr - rhs.ptr.  Between two addresses that are not a *)
(* whole number of elements apart the subtraction is undefined: any value  *)
(* of the result type may come out.                                        *)
(***************************************************************************)
operator_difference(this, rhs) ==
    LET d == this.ptr - rhs.ptr
    IN  IF d % SizeofT = 0 THEN {d \div SizeofT} ELSE DiffRange

(***************************************************************************)
(* device_ptr<T>: comparison.                                              *)
(***************************************************************************)
operator_eq(x, y) == x.ptr = y.ptr

operator_ne(x, y) == x.ptr # y.ptr

operator_lt(x, y) == x.ptr < y.ptr

(* Faulty variant: <= written as <. *)
operator_le_strict(x, y) == x.ptr < y.ptr

operator_le(x, y) == x.ptr <= y.ptr

operator_gt(x, y) == x.ptr > y.ptr

operator_ge(x, y) == x.ptr >= y.ptr

(***************************************************************************)
(* device_ptr<T>: conversion.  (Integral)ptr keeps the low w bits of the   *)
(* address, read as two's complement when Integral is signed.              *)
(***************************************************************************)
IntegralOf(p, w, sgn) ==
    LET m == p % (2 ^ w)
    IN  IF sgn /\ m >= 2 ^ (w - 1) THEN m - 2 ^ w ELSE m

operator_device_ptr_void(this) == [ptr |-> this.ptr]

(* Faulty variant: the cast goes through a narrower type. *)
operator_Integral_via_narrow(this, w, sgn) ==
    IntegralOf(IntegralOf(this.ptr, w - 1, FALSE), w, sgn)

operator_Integral(this, w, sgn) == IntegralOf(this.ptr, w, sgn)

(* Faulty variant: the null test inverted. *)
operator_bool_inverted(this) == this.ptr = nullptr

operator_bool(this) == this.ptr # nullptr

operator_raw(this) == this.ptr

operator_void(this) == this.ptr

operator_const_void(this) == this.ptr

(***************************************************************************)
(* device_ptr<T>: swap and get.  swap yields the two objects after the     *)
(* call.                                                                   *)
(***************************************************************************)
(* Faulty variant: an exchange without a temporary. *)
swap_no_tmp(x, y) == [x |-> [x EXCEPT !.ptr = y.ptr], y |-> y]

swap(x, y) == [x |-> [x EXCEPT !.ptr = y.ptr], y |-> [y EXCEPT !.ptr = x.ptr]]

get(x) == x.ptr

(***************************************************************************)
(* device_ptr<void>: the specialisation.                                   *)
(***************************************************************************)
void_device_ptr_nullptr == [ptr |-> nullptr]

void_device_ptr_raw(p) == [ptr |-> p]

void_operator_eq(x, y) == x.ptr = y.ptr

void_operator_ne(x, y) == x.ptr # y.ptr

void_operator_lt(x, y) == x.ptr < y.ptr

void_operator_le(x, y) == x.ptr <= y.ptr

void_operator_gt(x, y) == x.ptr > y.ptr

void_operator_ge(x, y) == x.ptr >= y.ptr

void_operator_Integral(this, w, sgn) == IntegralOf(this.ptr, w, sgn)

void_operator_bool(this) == this.ptr # nullptr

void_operator_raw(this) == this.ptr

void_operator_const_raw(this) == this.ptr

void_operator_void(this) == this.ptr

void_operator_const_void(this) == this.ptr

void_swap(x, y) == [x |-> [x EXCEPT !.ptr = y.ptr], y |-> [y EXCEPT !.ptr = x.ptr]]

void_get(x) == x.ptr

(***************************************************************************)
(* The calls.  A call names its operands: an object (x or y) or "ret", the *)
(* temporary the previous call returned.  Only an object can be the        *)
(* operand of a call that needs an lvalue.                                 *)
(***************************************************************************)
Call(name, a, b, n) == [name |-> name, a |-> a, b |-> b, n |-> n]

Returns(kind, val) == [kind |-> kind, val |-> val]

TypedSlots == IF inst = "void" THEN {} ELSE Slots

OpaqueSlots == IF inst = "void" THEN Slots ELSE {}

TypedTemps == IF ret.kind = "device_ptr<T>" THEN {"ret"} ELSE {}

OpaqueTemps == IF ret.kind = "device_ptr<void>" THEN {"ret"} ELSE {}

Val(a) == IF a = "ret" THEN ret.val ELSE obj[a]

Frame == UNCHANGED <<build, inst, ctx>>

Pure(name, a, b, n, kind, val) ==
    /\ op' = Call(name, a, b, n)
    /\ ret' = Returns(kind, val)
    /\ UNCHANGED obj
    /\ Frame

Init ==
    /\ build \in Builds
    /\ inst \in Insts
    /\ ctx \in (IF build.cuda THEN {"host", "device"} ELSE {"host"})
    /\ obj = [s \in Slots |->
                 IF inst = "void" THEN void_device_ptr_nullptr ELSE device_ptr_nullptr]
    /\ op = Call("main", "-", "-", 0)
    /\ ret = Returns("void", 0)

(***************************************************************************)
(* device_ptr<T>: construction and assignment.  The defaulted constructor  *)
(* leaves ptr uninitialised: it holds any address.                         *)
(***************************************************************************)
DefaultConstruct ==
    /\ Callable(HostDevice)
    /\ \E p \in Addr : Pure("device_ptr()", "-", "-", 0, "device_ptr<T>", [ptr |-> p])

NullConstruct ==
    /\ Callable(HostDevice)
    /\ Pure("device_ptr(nullptr)", "-", "-", 0, "device_ptr<T>", device_ptr_nullptr)

Construct ==
    /\ Callable(HostDevice)
    /\ \E p \in Addr : Pure("device_ptr(T*)", "-", "-", p, "device_ptr<T>", device_ptr_raw(p))

Recover(v) ==
    /\ Callable(HostDevice)
    /\ Accepted(VoidPtr, ElemPtr)
    /\ Pure("device_ptr(device_ptr<void>)", v, "-", 0, "device_ptr<T>",
            device_ptr_from_void(Val(v)))

Assign(x) ==
    /\ ret.kind = "device_ptr<T>"
    /\ obj' = [obj EXCEPT ![x] = ret.val]
    /\ op' = Call("operator=", x, "ret", 0)
    /\ ret' = Returns("device_ptr<T>", ret.val)
    /\ Frame

(***************************************************************************)
(* device_ptr<T>: access.                                                  *)
(***************************************************************************)
Deref(a) ==
    /\ Callable(DeviceOnly)
    /\ Pure("operator*", a, "-", 0, "T&", operator_deref(Val(a)))

Index(a, n) ==
    /\ Callable(DeviceOnly)
    /\ Pure("operator[]", a, "-", n, "T&", operator_index(Val(a), n))

Arrow(a) ==
    /\ Callable(DeviceOnly)
    /\ Pure("operator->", a, "-", 0, "T*", operator_arrow(Val(a)))

(***************************************************************************)
(* device_ptr<T>: arithmetic.                                              *)
(***************************************************************************)
Mutate(name, x, n, r) ==
    /\ obj' = [obj EXCEPT ![x] = r.this]
    /\ op' = Call(name, x, "-", n)
    /\ ret' = Returns("device_ptr<T>", r.ret)
    /\ Frame

PostIncrement(x) ==
    /\ Callable(HostDevice)
    /\ Mutate("operator++(int)", x, 0, operator_postinc(obj[x]))

PreIncrement(x) ==
    /\ Callable(HostDevice)
    /\ Mutate("operator++", x, 0, operator_preinc(obj[x]))

PlusAssign(x, n) ==
    /\ Callable(HostDevice)
    /\ Mutate("operator+=", x, n, operator_plus_assign(obj[x], n))

(* Faulty variant: operator+ advances its own object. *)
Plus_in_place(a, n) ==
    /\ Callable(HostDevice)
    /\ Mutate("operator+", a, n, operator_plus_assign(obj[a], n))

Plus(a, n) ==
    /\ Callable(HostDevice)
    /\ Pure("operator+", a, "-", n, "device_ptr<T>", operator_plus(Val(a), n))

PostDecrement(x) ==
    /\ Callable(HostDevice)
    /\ Mutate("operator--(int)", x, 0, operator_postdec(obj[x]))

PreDecrement(x) ==
    /\ Callable(HostDevice)
    /\ Mutate("operator--", x, 0, operator_predec(obj[x]))

MinusAssign(x, n) ==
    /\ Callable(HostDevice)
    /\ Mutate("operator-=", x, n, operator_minus_assign(obj[x], n))

Minus(a, n) ==
    /\ Callable(HostDevice)
    /\ Pure("operator-", a, "-", n, "device_ptr<T>", operator_minus(Val(a), n))

Difference(a, b) ==
    /\ Callable(HostDevice)
    /\ \E d \in operator_difference(Val(a), Val(b)) :
           Pure("operator-(device_ptr)", a, b, 0, "ptrdiff_t", d)

(***************************************************************************)
(* device_ptr<T>: comparison.                                              *)
(***************************************************************************)
Eq(a, b) ==
    /\ Callable(HostDevice)
    /\ Pure("operator==", a, b, 0, "bool", operator_eq(Val(a), Val(b)))

Ne(a, b) ==
    /\ Callable(HostDevice)
    /\ Pure("operator!=", a, b, 0, "bool", operator_ne(Val(a), Val(b)))

Lt(a, b) ==
    /\ Callable(HostDevice)
    /\ Pure("operator<", a, b, 0, "bool", operator_lt(Val(a), Val(b)))

Le(a, b) ==
    /\ Callable(HostDevice)
    /\ Pure("operator<=", a, b, 0, "bool", operator_le(Val(a), Val(b)))

Gt(a, b) ==
    /\ Callable(HostDevice)
    /\ Pure("operator>", a, b, 0, "bool", operator_gt(Val(a), Val(b)))

Ge(a, b) ==
    /\ Callable(HostDevice)
    /\ Pure("operator>=", a, b, 0, "bool", operator_ge(Val(a), Val(b)))

(***************************************************************************)
(* device_ptr<T>: conversion.  The integral conversion to a type narrower  *)
(* than a pointer, and a pointer conversion that drops const or leaves     *)
(* void, compile only in a permissive build.                               *)
(***************************************************************************)
SgnName(sgn) == IF sgn THEN "signed" ELSE "unsigned"

Erase(a) ==
    /\ Callable(HostDevice)
    /\ Accepted(ElemPtr, VoidPtr)
    /\ Pure("operator device_ptr<void>", a, "-", 0, "device_ptr<void>",
            operator_device_ptr_void(Val(a)))

IntegralCast(a, w, sgn) ==
    /\ Callable(HostDevice)
    /\ w >= PtrBits \/ build.permissive
    /\ Pure("operator Integral", a, SgnName(sgn), w, "Integral",
            operator_Integral(Val(a), w, sgn))

BoolCast(a) ==
    /\ Callable(HostDevice)
    /\ Pure("operator bool", a, "-", 0, "bool", operator_bool(Val(a)))

RawCast(a) ==
    /\ Callable(HostDevice)
    /\ Pure("operator T*", a, "-", 0, "T*", operator_raw(Val(a)))

VoidCast(a) ==
    /\ Callable(HostDevice)
    /\ Accepted(ElemPtr, VoidPtr)
    /\ Pure("operator void*", a, "-", 0, "void*", operator_void(Val(a)))

ConstVoidCast(a) ==
    /\ Callable(HostDevice)
    /\ Accepted(ElemPtr, ConstVoidPtr)
    /\ Pure("operator const void*", a, "-", 0, "void*", operator_const_void(Val(a)))

(***************************************************************************)
(* device_ptr<T>: swap and get.                                            *)
(***************************************************************************)
Swap(x, y) ==
    /\ Callable(HostDevice)
    /\ LET r == swap(obj[x], obj[y])
       IN  obj' = [obj EXCEPT ![x] = r.x, ![y] = r.y]
    /\ op' = Call("swap", x, y, 0)
    /\ ret' = Returns("void", 0)
    /\ Frame

Get(a) ==
    /\ Callable(HostDevice)
    /\ Pure("get", a, "-", 0, "T*", get(Val(a)))

(***************************************************************************)
(* device_ptr<void>.                                                       *)
(***************************************************************************)
VoidDefaultConstruct ==
    /\ Callable(HostDevice)
    /\ \E p \in Addr :
           Pure("device_ptr<void>()", "-", "-", 0, "device_ptr<void>", [ptr |-> p])

VoidNullConstruct ==
    /\ Callable(HostDevice)
    /\ Pure("device_ptr<void>(nullptr)", "-", "-", 0, "device_ptr<void>",
            void_device_ptr_nullptr)

VoidConstruct ==
    /\ Callable(HostDevice)
    /\ \E p \in Addr :
           Pure("device_ptr<void>(void*)", "-", "-", p, "device_ptr<void>",
                void_device_ptr_raw(p))

VoidAssign(v) ==
    /\ ret.kind = "device_ptr<void>"
    /\ obj' = [obj EXCEPT ![v] = ret.val]
    /\ op' = Call("void operator=", v, "ret", 0)
    /\ ret' = Returns("device_ptr<void>", ret.val)
    /\ Frame

VoidEq(a, b) ==
    /\ Callable(HostDevice)
    /\ Pure("void operator==", a, b, 0, "bool", void_operator_eq(Val(a), Val(b)))

VoidNe(a, b) ==
    /\ Callable(HostDevice)
    /\ Pure("void operator!=", a, b, 0, "bool", void_operator_ne(Val(a), Val(b)))

VoidLt(a, b) ==
    /\ Callable(HostDevice)
    /\ Pure("void operator<", a, b, 0, "bool", void_operator_lt(Val(a), Val(b)))

VoidLe(a, b) ==
    /\ Callable(HostDevice)
    /\ Pure("void operator<=", a, b, 0, "bool", void_operator_le(Val(a), Val(b)))

VoidGt(a, b) ==
    /\ Callable(HostDevice)
    /\ Pure("void operator>", a, b, 0, "bool", void_operator_gt(Val(a), Val(b)))

VoidGe(a, b) ==
    /\ Callable(HostDevice)
    /\ Pure("void operator>=", a, b, 0, "bool", void_operator_ge(Val(a), Val(b)))

VoidIntegralCast(a, w, sgn) ==
    /\ Callable(HostDevice)
    /\ w >= PtrBits \/ build.permissive
    /\ Pure("void operator Integral", a, SgnName(sgn), w, "Integral",
            void_operator_Integral(Val(a), w, sgn))

VoidBoolCast(a) ==
    /\ Callable(HostDevice)
    /\ Pure("void operator bool", a, "-", 0, "bool", void_operator_bool(Val(a)))

VoidRawCast(a) ==
    /\ Callable(HostDevice)
    /\ Pure("void operator T*", a, "-", 0, "T*", void_operator_raw(Val(a)))

VoidConstRawCast(a) ==
    /\ Callable(HostDevice)
    /\ Pure("void operator const T*", a, "-", 0, "T*", void_operator_const_raw(Val(a)))

VoidVoidCast(a) ==
    /\ Callable(HostDevice)
    /\ Pure("void operator void*", a, "-", 0, "void*", void_operator_void(Val(a)))

VoidConstVoidCast(a) ==
    /\ Callable(HostDevice)
    /\ Pure("void operator const void*", a, "-", 0, "void*",
            void_operator_const_void(Val(a)))

VoidSwap(v, w) ==
    /\ Callable(HostDevice)
    /\ LET r == void_swap(obj[v], obj[w])
       IN  obj' = [obj EXCEPT ![v] = r.x, ![w] = r.y]
    /\ op' = Call("void swap", v, w, 0)
    /\ ret' = Returns("void", 0)
    /\ Frame

VoidGet(a) ==
    /\ Callable(HostDevice)
    /\ Pure("void get", a, "-", 0, "void*", void_get(Val(a)))

(***************************************************************************)
(* The calling function makes one call after another.                      *)
(***************************************************************************)
Next ==
    \/ DefaultConstruct
    \/ NullConstruct
    \/ Construct
    \/ \E v \in OpaqueSlots \cup OpaqueTemps : Recover(v)
    \/ \E x \in TypedSlots : Assign(x)
    \/ \E a \in TypedSlots : Deref(a)
    \/ \E a \in TypedSlots, n \in Offsets : Index(a, n)
    \/ \E a \in TypedSlots : Arrow(a)
    \/ \E x \in TypedSlots : PostIncrement(x)
    \/ \E x \in TypedSlots : PreIncrement(x)
    \/ \E x \in TypedSlots, n \in Offsets : PlusAssign(x, n)
    \/ \E a \in TypedSlots, n \in Offsets : Plus(a, n)
    \/ \E x \in TypedSlots : PostDecrement(x)
    \/ \E x \in TypedSlots : PreDecrement(x)
    \/ \E x \in TypedSlots, n \in Offsets : MinusAssign(x, n)
    \/ \E a \in TypedSlots \cup TypedTemps, n \in Offsets : Minus(a, n)
    \/ \E a \in TypedSlots, b \in TypedSlots : Difference(a, b)
    \/ \E a \in TypedSlots, b \in TypedSlots : Eq(a, b)
    \/ \E a \in TypedSlots, b \in TypedSlots : Ne(a, b)
    \/ \E a \in TypedSlots, b \in TypedSlots : Lt(a, b)
    \/ \E a \in TypedSlots, b \in TypedSlots : Le(a, b)
    \/ \E a \in TypedSlots, b \in TypedSlots : Gt(a, b)
    \/ \E a \in TypedSlots, b \in TypedSlots : Ge(a, b)
    \/ \E a \in TypedSlots : Erase(a)
    \/ \E a \in TypedSlots, w \in IntWidths, sgn \in BOOLEAN : IntegralCast(a, w, sgn)
    \/ \E a \in TypedSlots \cup TypedTemps : BoolCast(a)
    \/ \E a \in TypedSlots : RawCast(a)
    \/ \E a \in TypedSlots : VoidCast(a)
    \/ \E a \in TypedSlots : ConstVoidCast(a)
    \/ \E x \in TypedSlots, y \in TypedSlots : Swap(x, y)
    \/ \E a \in TypedSlots \cup TypedTemps : Get(a)
    \/ VoidDefaultConstruct
    \/ VoidNullConstruct
    \/ VoidConstruct
    \/ \E v \in OpaqueSlots : VoidAssign(v)
    \/ \E a \in OpaqueSlots, b \in OpaqueSlots : VoidEq(a, b)
    \/ \E a \in OpaqueSlots, b \in OpaqueSlots : VoidNe(a, b)
    \/ \E a \in OpaqueSlots, b \in OpaqueSlots : VoidLt(a, b)
    \/ \E a \in OpaqueSlots, b \in OpaqueSlots : VoidLe(a, b)
    \/ \E a \in OpaqueSlots, b \in OpaqueSlots : VoidGt(a, b)
    \/ \E a \in OpaqueSlots, b \in OpaqueSlots : VoidGe(a, b)
    \/ \E a \in OpaqueSlots, w \in IntWidths, sgn \in BOOLEAN : VoidIntegralCast(a, w, sgn)
    \/ \E a \in OpaqueSlots \cup OpaqueTemps : VoidBoolCast(a)
    \/ \E a \in OpaqueSlots : VoidRawCast(a)
    \/ \E a \in OpaqueSlots : VoidConstRawCast(a)
    \/ \E a \in OpaqueSlots : VoidVoidCast(a)
    \/ \E a \in OpaqueSlots : VoidConstVoidCast(a)
    \/ \E v \in OpaqueSlots, w \in OpaqueSlots : VoidSwap(v, w)
    \/ \E a \in OpaqueSlots \cup OpaqueTemps : VoidGet(a)

Spec == Init /\ [][Next]_vars

(***************************************************************************)
(* Names used by the properties.                                           *)
(***************************************************************************)
AccessOps == {"operator*", "operator[]", "operator->"}

IntegralOps == {"operator Integral", "void operator Integral"}

Increments == {"operator++", "operator++(int)"}

Decrements == {"operator--", "operator--(int)"}

(***************************************************************************)
(* C1: in every build, a call of operator*, operator[] or operator-> is    *)
(* made only by a function compiled for the device.                        *)
(***************************************************************************)
C1_AccessOnlyOnDevice == op.name \in AccessOps => ctx = "device"

(***************************************************************************)
(* C2: get(device_ptr<T>(p)) = p for every raw address p, null included,   *)
(* and likewise for device_ptr<void>.                                      *)
(***************************************************************************)
C2_RoundTrip ==
    [][/\ (op.name = "device_ptr(T*)" /\ op'.name = "get" /\ op'.a = "ret")
              => ret'.val = op.n
       /\ (op.name = "device_ptr<void>(void*)" /\ op'.name = "void get" /\ op'.a = "ret")
              => ret'.val = op.n]_vars

C2_Witness ==
    /\ op.name \in {"get", "void get"}
    /\ op.a = "ret"
    /\ ret.val # nullptr

(***************************************************************************)
(* C3: for two pointers of one instantiation exactly one of x < y, x == y, *)
(* x > y holds, and each of the six comparison operators returns the same  *)
(* comparison of the two wrapped addresses: != negates ==, <= is < or ==,  *)
(* and x > y is y < x.                                                     *)
(***************************************************************************)
ExactlyOne(p, q, r) == (p /\ ~q /\ ~r) \/ (~p /\ q /\ ~r) \/ (~p /\ ~q /\ r)

NativeCompare(name, p, q) ==
    CASE name \in {"operator==", "void operator=="} -> p = q
      [] name \in {"operator!=", "void operator!="} -> p # q
      [] name \in {"operator<", "void operator<"} -> p < q
      [] name \in {"operator<=", "void operator<="} -> p <= q
      [] name \in {"operator>", "void operator>"} -> p > q
      [] name \in {"operator>=", "void operator>="} -> p >= q

TypedCompareOps ==
    {"operator==", "operator!=", "operator<", "operator<=", "operator>", "operator>="}

VoidCompareOps ==
    {"void operator==", "void operator!=", "void operator<", "void operator<=",
     "void operator>", "void operator>="}

C3_TotalOrder ==
    /\ \A a \in TypedSlots, b \in TypedSlots :
           LET X == obj[a]
               Y == obj[b]
           IN  /\ ExactlyOne(operator_lt(X, Y), operator_eq(X, Y), operator_gt(X, Y))
               /\ operator_ne(X, Y) = ~operator_eq(X, Y)
               /\ operator_le(X, Y) = (operator_lt(X, Y) \/ operator_eq(X, Y))
               /\ operator_ge(X, Y) = (operator_gt(X, Y) \/ operator_eq(X, Y))
               /\ operator_gt(X, Y) = operator_lt(Y, X)
    /\ \A a \in OpaqueSlots, b \in OpaqueSlots :
           LET X == obj[a]
               Y == obj[b]
           IN  /\ ExactlyOne(void_operator_lt(X, Y), void_operator_eq(X, Y),
                             void_operator_gt(X, Y))
               /\ void_operator_ne(X, Y) = ~void_operator_eq(X, Y)
               /\ void_operator_le(X, Y) = (void_operator_lt(X, Y) \/ void_operator_eq(X, Y))
               /\ void_operator_ge(X, Y) = (void_operator_gt(X, Y) \/ void_operator_eq(X, Y))
               /\ void_operator_gt(X, Y) = void_operator_lt(Y, X)
    /\ op.name \in TypedCompareOps
           => ret.val = NativeCompare(op.name, get(obj[op.a]), get(obj[op.b]))
    /\ op.name \in VoidCompareOps
           => ret.val = NativeCompare(op.name, void_get(obj[op.a]), void_get(obj[op.b]))

C3_Witness ==
    /\ op.name = "operator<="
    /\ ret.val = TRUE
    /\ get(obj[op.a]) < get(obj[op.b])

(***************************************************************************)
(* C4: get(x + n) is get(x) advanced by n elements, for n of either sign;  *)
(* (x + n) - n compares equal to x; after x += n the address is that of    *)
(* the old x + n, and a following x -= n restores the address x had before *)
(* the +=.                                                                 *)
(***************************************************************************)
C4_State ==
    op.name = "operator+" => get(ret.val) = PtrAdd(get(obj[op.a]), op.n)

C4_Step ==
    /\ (op.name = "operator+" /\ op'.name = "operator-" /\ op'.a = "ret" /\ op'.n = op.n)
           => operator_eq(ret'.val, obj[op.a])
    /\ op'.name = "operator+="
           => /\ get(obj'[op'.a]) = get(operator_plus(obj[op'.a], op'.n))
              /\ get(obj'[op'.a]) = PtrAdd(get(obj[op'.a]), op'.n)
    /\ (op.name = "operator+=" /\ op'.name = "operator-=" /\ op'.a = op.a /\ op'.n = op.n)
           => \A o \in Addr :
                  get(operator_plus(device_ptr_raw(o), op.n)) = get(obj[op.a])
                      => get(obj'[op.a]) = o

C4_Arithmetic == [](C4_State) /\ [][C4_Step]_vars

C4_Witness ==
    /\ op.name = "operator-="
    /\ op.n < 0
    /\ get(obj[op.a]) # nullptr
    /\ get(obj[op.a]) # PtrSub(get(obj[op.a]), op.n)

(***************************************************************************)
(* C5: whatever the element type, const or not, a device_ptr<T> can be     *)
(* converted to device_ptr<void> and the result converted back with the    *)
(* explicit constructor, which yields a pointer that compares equal to the *)
(* original.                                                               *)
(***************************************************************************)
C5_EraseRecover ==
    /\ (inst # "void" /\ op.name = "operator=") => ENABLED Erase(op.a)
    /\ op.name = "operator device_ptr<void>"
           => /\ ENABLED Recover("ret")
              /\ operator_eq(device_ptr_from_void(ret.val), obj[op.a])

(***************************************************************************)
(* C6: swap(a, b) exchanges the two wrapped addresses; a second swap(a, b) *)
(* restores both, and swap(a, a) changes nothing.                          *)
(***************************************************************************)
C6_Step ==
    /\ op'.name = "swap"
           => /\ get(obj'[op'.a]) = get(obj[op'.b])
              /\ get(obj'[op'.b]) = get(obj[op'.a])
              /\ op'.a = op'.b => obj' = obj
    /\ op'.name = "void swap"
           => /\ void_get(obj'[op'.a]) = void_get(obj[op'.b])
              /\ void_get(obj'[op'.b]) = void_get(obj[op'.a])
              /\ op'.a = op'.b => obj' = obj
    /\ (op.name \in {"swap", "void swap"} /\ op' = op)
           => \A o \in [Slots -> Addr] :
                  (/\ obj[op.a].ptr = o[op.b]
                   /\ obj[op.b].ptr = o[op.a]
                   /\ \A s \in Slots \ {op.a, op.b} : obj[s].ptr = o[s])
                      => \A s \in Slots : obj'[s].ptr = o[s]

C6_Swap == [][C6_Step]_vars

C6_Witness ==
    /\ op.name \in {"swap", "void swap"}
    /\ op.a # op.b
    /\ obj[op.a].ptr # obj[op.b].ptr

(***************************************************************************)
(* C7: the conversion to bool is true exactly when the wrapped address is  *)
(* not null, in every state that arithmetic and swap lead to; a pointer    *)
(* constructed from nullptr converts to false and one constructed from a   *)
(* non-null address to true.                                               *)
(***************************************************************************)
C7_Step ==
    /\ op'.name = "operator bool" => ret'.val = (get(Val(op'.a)) # nullptr)
    /\ op'.name = "void operator bool" => ret'.val = (void_get(Val(op'.a)) # nullptr)
    /\ (op.name \in {"device_ptr(nullptr)", "device_ptr<void>(nullptr)"}
            /\ op'.name \in {"operator bool", "void operator bool"} /\ op'.a = "ret")
           => ret'.val = FALSE
    /\ (op.name \in {"device_ptr(T*)", "device_ptr<void>(void*)"} /\ op.n # nullptr
            /\ op'.name \in {"operator bool", "void operator bool"} /\ op'.a = "ret")
           => ret'.val = TRUE

C7_Bool == [][C7_Step]_vars

C7_Witness ==
    /\ op.name = "operator bool"
    /\ op.a \in Slots
    /\ ret.val = TRUE
    /\ get(obj[op.a]) # nullptr

ArithmeticAssignOps ==
    {"operator++", "operator++(int)", "operator--", "operator--(int)",
     "operator+=", "operator-=", "operator=", "void operator="}

C9_Original ==
    [][\A s \in Slots :
           obj'[s] # obj[s] => (op'.name \in ArithmeticAssignOps /\ op'.a = s)]_vars

(***************************************************************************)
(* C9 as amended: the wrapped address of an object changes only in a step  *)
(* that is ++, --, +=, -= or an assignment applied to that object, or a    *)
(* swap of which it is an operand; every other call leaves all wrapped     *)
(* addresses unchanged.                                                    *)
(***************************************************************************)
C9_Frame ==
    [][\A s \in Slots :
           obj'[s] # obj[s]
               => \/ op'.name \in ArithmeticAssignOps /\ op'.a = s
                  \/ op'.name \in {"swap", "void swap"} /\ s \in {op'.a, op'.b}]_vars

C9_Witness ==
    /\ op.name = "swap"
    /\ get(obj[op.a]) = nullptr
    /\ get(obj[op.b]) # nullptr

(***************************************************************************)
(* C10: x++ and x-- return a pointer holding the address x had before the  *)
(* call, ++x and --x return x with its new address, and each moves the     *)
(* address of x by exactly one element, forward for ++ and backward for    *)
(* --; an increment followed by a decrement, or a decrement followed by an *)
(* increment, restores the address.                                        *)
(***************************************************************************)
C10_State ==
    \A p \in Addr :
        /\ get(operator_predec(operator_preinc(device_ptr_raw(p)).this).this) = p
        /\ get(operator_postdec(operator_postinc(device_ptr_raw(p)).this).this) = p
        /\ get(operator_preinc(operator_postdec(device_ptr_raw(p)).this).this) = p
        /\ get(operator_postinc(operator_predec(device_ptr_raw(p)).this).this) = p

C10_Step ==
    /\ op'.name = "operator++(int)"
           => /\ ret'.val = obj[op'.a]
              /\ get(obj'[op'.a]) = PtrAdd(get(obj[op'.a]), 1)
    /\ op'.name = "operator++"
           => /\ ret'.val = obj'[op'.a]
              /\ get(obj'[op'.a]) = PtrAdd(get(obj[op'.a]), 1)
    /\ op'.name = "operator--(int)"
           => /\ ret'.val = obj[op'.a]
              /\ get(obj'[op'.a]) = PtrSub(get(obj[op'.a]), 1)
    /\ op'.name = "operator--"
           => /\ ret'.val = obj'[op'.a]
              /\ get(obj'[op'.a]) = PtrSub(get(obj[op'.a]), 1)
    /\ (\/ op.name \in Increments /\ op'.name \in Decrements
        \/ op.name \in Decrements /\ op'.name \in Increments) /\ op'.a = op.a
           => \A o \in Addr :
                  (IF op.name \in Increments THEN PtrAdd(o, 1) ELSE PtrSub(o, 1))
                      = get(obj[op.a]) => get(obj'[op.a]) = o

C10_IncDec == [](C10_State) /\ [][C10_Step]_vars

C10_Witness ==
    /\ op.name = "operator--(int)"
    /\ get(ret.val) = nullptr
    /\ get(obj[op.a]) = PtrMod - SizeofT

====
